---- MODULE Spec2Model ----
(***************************************************************************)
(* Model of weatherForecastTool.py: the one-shot pipeline of main() and    *)
(* the pure helpers it is built from (time rounding, forecast offset,      *)
(* categorisation, dictionary clean-up, sentence assembly).                *)
(*                                                                         *)
(* Python values are tagged records [t |-> type name, v |-> payload]; a    *)
(* dict is an insertion-ordered sequence of <<key, value>> pairs.          *)
(***************************************************************************)
EXTENDS Integers, Sequences, FiniteSets, TLC

VARIABLES
    pc,                 \* statement of main() that runs next
    status,             \* "running" | "exit" (exit() called) | "raised" (uncaught exception) | "returned"
    exception,          \* name of the uncaught exception, "" when none
    stdout,             \* sequence of strings written by print()
    failed,             \* which failure of the pipeline happened, "" when none
    api_key_ok,         \* does pyowm.OWM(api_key) accept the credential
    weather,            \* main(): weather
    hr, mins,           \* get_curr_hour_min(): hr, mins as read from the clock
    weather_info_dict,  \* main(): weather_info_dict
    forecast,           \* main(): forecast (its .weathers)
    curr_hour, curr_min,\* get_current_time(): curr_hour, curr_min as read from the clock
    curr_time,          \* get_current_time(): return value
    jump_ret,           \* jump_to_entry(): return value
    each_time_stamp,    \* get_forecast_details(): index bound to the loop variable, 0 when unbound
    forecast_info_dict, \* main(): forecast_info_dict
    rain_snow_fog_dict, \* main(): rain_snow_fog_dict
    fn, arg, ret, ret2  \* a direct call of one helper: its name, argument, result, result of reapplying

vars == <<pc, status, exception, stdout, failed, api_key_ok, weather, hr, mins,
          weather_info_dict, forecast, curr_hour, curr_min, curr_time, jump_ret,
          each_time_stamp, forecast_info_dict, rain_snow_fog_dict, fn, arg, ret, ret2>>

pipeline_vars == <<pc, status, exception, stdout, failed, api_key_ok, weather, hr, mins,
                   weather_info_dict, forecast, curr_hour, curr_min, curr_time, jump_ret,
                   each_time_stamp, forecast_info_dict, rain_snow_fog_dict>>

call_vars == <<fn, arg, ret, ret2>>

(***************************************************************************)
(* Bounds                                                                  *)
(***************************************************************************)
MaxKeys == 2        \* keys of a dictionary handed to format_weather_details
MaxLen == 3         \* entries of a forecast series
MaxElapsed == 1     \* minutes that pass between the two clock reads of a run
ArgBelow == 3       \* integers below zero handed to a categorisation helper
MaxArg == 102       \* greatest integer handed to a categorisation helper

(***************************************************************************)
(* Program constants                                                       *)
(***************************************************************************)
HoursPerDay == 24       \* datetime: hour in 0..23
MinutesPerHour == 60    \* datetime: minute in 0..59

(***************************************************************************)
(* Python values                                                           *)
(***************************************************************************)
PyNone == [t |-> "NoneType", v |-> "None"]
StrV(s) == [t |-> "str", v |-> s]
IntV(n) == [t |-> "int", v |-> n]
BoolV(b) == [t |-> "bool", v |-> b]
DictV(pairs) == [t |-> "dict", v |-> pairs]
ListV(items) == [t |-> "list", v |-> items]
TupleV(items) == [t |-> "tuple", v |-> items]
Raise(name) == [t |-> "raise", v |-> name]
Unset == [t |-> "unset", v |-> ""]

Digits == <<"0", "1", "2", "3", "4", "5", "6", "7", "8", "9">>

RECURSIVE NatToStr(_)
NatToStr(n) == IF n < 10 THEN Digits[n + 1]
               ELSE NatToStr(n \div 10) \o Digits[(n % 10) + 1]

\* str() of an int
IntToStr(n) == IF n < 0 THEN "-" \o NatToStr(-n) ELSE NatToStr(n)

RECURSIVE PyStr(_), PyRepr(_), JoinItems(_), JoinPairs(_)

\* str() of a value
PyStr(value) ==
    CASE value.t = "str" -> value.v
      [] value.t = "int" -> IntToStr(value.v)
      [] value.t = "bool" -> (IF value.v THEN "True" ELSE "False")
      [] value.t = "NoneType" -> "None"
      [] value.t = "list" -> "[" \o JoinItems(value.v) \o "]"
      [] value.t = "tuple" -> "(" \o JoinItems(value.v) \o
                              (IF Len(value.v) = 1 THEN ",)" ELSE ")")
      [] value.t = "dict" -> "{" \o JoinPairs(value.v) \o "}"

\* repr() of a value: as str(), with quotes around a string
PyRepr(value) == IF value.t = "str" THEN "'" \o value.v \o "'" ELSE PyStr(value)

JoinItems(items) ==
    IF items = <<>> THEN ""
    ELSE IF Len(items) = 1 THEN PyRepr(items[1])
    ELSE PyRepr(items[1]) \o ", " \o JoinItems(Tail(items))

JoinPairs(pairs) ==
    IF pairs = <<>> THEN ""
    ELSE IF Len(pairs) = 1 THEN "'" \o pairs[1][1] \o "': " \o PyRepr(pairs[1][2])
    ELSE "'" \o pairs[1][1] \o "': " \o PyRepr(pairs[1][2]) \o ", " \o JoinPairs(Tail(pairs))

\* dict operations
DictKeys(d) == {d.v[i][1] : i \in 1..Len(d.v)}
DictGet(d, key) == d.v[CHOOSE i \in 1..Len(d.v) : d.v[i][1] = key][2]
DictSet(d, key, value) ==
    IF key \in DictKeys(d)
    THEN DictV([i \in 1..Len(d.v) |-> IF d.v[i][1] = key THEN <<key, value>> ELSE d.v[i]])
    ELSE DictV(Append(d.v, <<key, value>>))

(***************************************************************************)
(* determine_time_of_day, determine_humidity                               *)
(***************************************************************************)
determine_time_of_day_swapped(reference_time) ==
    IF 6 < reference_time /\ reference_time <= 12 THEN StrV("Morning")
    ELSE IF 12 < reference_time /\ reference_time <= 18 THEN StrV("Afternoon")
    ELSE IF 18 < reference_time /\ reference_time <= 24 THEN StrV("Evening")
    ELSE PyNone

determine_time_of_day_night(reference_time) ==
    IF 6 <= reference_time /\ reference_time < 12 THEN StrV("Morning")
    ELSE IF 12 <= reference_time /\ reference_time < 18 THEN StrV("Afternoon")
    ELSE IF 18 <= reference_time /\ reference_time < 24 THEN StrV("Evening")
    ELSE StrV("Night")

determine_time_of_day(reference_time) ==
    IF 6 <= reference_time /\ reference_time < 12 THEN StrV("Morning")
    ELSE IF 12 <= reference_time /\ reference_time < 18 THEN StrV("Afternoon")
    ELSE IF 18 <= reference_time /\ reference_time < 24 THEN StrV("Evening")
    ELSE PyNone

determine_humidity_inclusive(humidity) ==
    IF humidity <= 30 THEN StrV("low")
    ELSE IF 30 <= humidity /\ humidity <= 60 THEN StrV("medium")
    ELSE StrV("high")

determine_humidity(humidity) ==
    IF humidity < 30 THEN StrV("low")
    ELSE IF 30 <= humidity /\ humidity < 60 THEN StrV("medium")
    ELSE StrV("high")

(***************************************************************************)
(* convert_to_string, remove_none_fields, remove_empty_fields,             *)
(* format_weather_details                                                  *)
(***************************************************************************)
convert_to_string(d) ==
    DictV([i \in 1..Len(d.v) |->
            IF d.v[i][2].t # "str" THEN <<d.v[i][1], StrV(PyStr(d.v[i][2]))>> ELSE d.v[i]])

\* value == None or value == 'None'
IsNoneField(value) ==
    \/ value.t = "NoneType"
    \/ (value.t = "str" /\ value.v = "None")

remove_none_fields_only_str(d) ==
    IF d.t = "NoneType" THEN DictV(<<>>)
    ELSE DictV(SelectSeq(d.v, LAMBDA p : ~(p[2].t = "str" /\ p[2].v = "None")))

remove_none_fields(d) ==
    IF d.t = "NoneType" THEN DictV(<<>>)
    ELSE DictV(SelectSeq(d.v, LAMBDA p : ~IsNoneField(p[2])))

\* value == '' or value == {} or value == []
IsEmptyField(value) ==
    \/ (value.t = "str" /\ value.v = "")
    \/ (value.t = "dict" /\ value.v = <<>>)
    \/ (value.t = "list" /\ value.v = <<>>)

remove_empty_fields_only_str(d) ==
    DictV(SelectSeq(d.v, LAMBDA p : ~(p[2].t = "str" /\ p[2].v = "")))

remove_empty_fields(d) == DictV(SelectSeq(d.v, LAMBDA p : ~IsEmptyField(p[2])))

format_weather_details(d) ==
    convert_to_string(remove_empty_fields(remove_none_fields(d)))

(***************************************************************************)
(* Direct calls of the helpers                                             *)
(***************************************************************************)
KeyNames == <<"a", "b", "c", "d", "e", "f", "g", "h">>

\* the values a dictionary entry is drawn from
FieldValues ==
    { PyNone, StrV("None"), StrV(""), DictV(<<>>), ListV(<<>>), TupleV(<<>>),
      IntV(5), IntV(0), IntV(-12), StrV("x"), BoolV(FALSE),
      DictV(<< <<"k", IntV(5)>> >>), ListV(<<StrV("x"), PyNone>>) }

RECURSIVE DictsOfLen(_)
DictsOfLen(n) ==
    IF n = 0 THEN {<<>>}
    ELSE {Append(p, <<KeyNames[n], value>>) : p \in DictsOfLen(n - 1), value \in FieldValues}

\* the dictionary of the worked example: {a: None, b: "", c: {}, d: [], e: "None", f: 5, g: "x"}
ExampleDict ==
    DictV(<< <<"a", PyNone>>, <<"b", StrV("")>>, <<"c", DictV(<<>>)>>, <<"d", ListV(<<>>)>>,
            <<"e", StrV("None")>>, <<"f", IntV(5)>>, <<"g", StrV("x")>> >>)

DictArgs == {DictV(p) : p \in UNION {DictsOfLen(n) : n \in 0..MaxKeys}} \cup {ExampleDict, PyNone}
IntArgs == {IntV(n) : n \in (0 - ArgBelow)..MaxArg}

PipelineIdle ==
    /\ pc = "idle" /\ status = "running" /\ exception = "" /\ stdout = <<>> /\ failed = ""
    /\ api_key_ok = TRUE /\ weather = Unset /\ hr = -1 /\ mins = -1
    /\ weather_info_dict = Unset /\ forecast = <<>> /\ curr_hour = -1 /\ curr_min = -1
    /\ curr_time = Unset /\ jump_ret = Unset /\ each_time_stamp = 0
    /\ forecast_info_dict = Unset /\ rain_snow_fog_dict = Unset

CallInit ==
    /\ PipelineIdle
    /\ fn = "" /\ ret = Unset /\ ret2 = Unset
    /\ arg \in IntArgs \cup DictArgs

CallDetermineTimeOfDay ==
    /\ fn = "" /\ arg.t = "int"
    /\ fn' = "determine_time_of_day"
    /\ ret' = determine_time_of_day(arg.v)
    /\ UNCHANGED <<arg, ret2, pipeline_vars>>

CallDetermineHumidity ==
    /\ fn = "" /\ arg.t = "int"
    /\ fn' = "determine_humidity"
    /\ ret' = determine_humidity(arg.v)
    /\ UNCHANGED <<arg, ret2, pipeline_vars>>

CallFormatWeatherDetails ==
    /\ fn = "" /\ arg.t \in {"dict", "NoneType"}
    /\ fn' = "format_weather_details"
    /\ ret' = format_weather_details(arg)
    /\ UNCHANGED <<arg, ret2, pipeline_vars>>

\* format_weather_details applied to its own result
CallFormatWeatherDetailsAgain ==
    /\ fn = "format_weather_details"
    /\ fn' = "format_weather_details twice"
    /\ ret2' = format_weather_details(ret)
    /\ UNCHANGED <<arg, ret, pipeline_vars>>

CallNext ==
    \/ CallDetermineTimeOfDay
    \/ CallDetermineHumidity
    \/ CallFormatWeatherDetails
    \/ CallFormatWeatherDetailsAgain

CallSpec == CallInit /\ [][CallNext]_vars

(***************************************************************************)
(* get_current_time, get_time_three_hours_later, jump_to_entry             *)
(***************************************************************************)
DateTime(hour, minute, second) ==
    [t |-> "datetime", v |-> [hour |-> hour, minute |-> minute, second |-> second]]

\* datetime.replace(hour=..., minute=..., second=...): ValueError outside the ranges
Replace(hour, minute, second) ==
    IF hour \in 0..(HoursPerDay - 1) /\ minute \in 0..(MinutesPerHour - 1)
    THEN DateTime(hour, minute, second)
    ELSE Raise("ValueError")

\* the clock `elapsed` minutes after hour:minute
ClockAfter(hour, minute, elapsed) ==
    LET total == hour * MinutesPerHour + minute + elapsed
    IN  <<(total \div MinutesPerHour) % HoursPerDay, total % MinutesPerHour>>

get_current_time(now_hour, now_minute) ==
    LET rounded == IF now_minute >= 30 THEN now_hour + 1 ELSE now_hour
    IN  Replace(rounded, 0, 0)

get_time_three_hours_later(now_hour, now_minute) ==
    LET time == get_current_time(now_hour, now_minute)
    IN  IF time.t = "raise" THEN time
        ELSE Replace(time.v.hour + 3, time.v.minute, time.v.second)

\* int(n / d): the quotient truncated toward zero
int_of_quotient(n, d) == IF n >= 0 THEN n \div d ELSE 0 - ((0 - n) \div d)

jump_to_entry(now_hour, now_minute) ==
    LET later == get_time_three_hours_later(now_hour, now_minute)
    IN  IF later.t = "raise" THEN later
        ELSE LET three_hours_later == later.v.hour
                 number_of_hours == three_hours_later - 9
             IN  TupleV(<<three_hours_later, int_of_quotient(number_of_hours, 3)>>)

(***************************************************************************)
(* The loop of get_forecast_details                                        *)
(***************************************************************************)
RECURSIVE walk_no_break(_, _, _, _)
walk_no_break(length, i, jump_entries, bound) ==
    IF i > length THEN bound
    ELSE walk_no_break(length, i + 1, jump_entries - 1, i)

\* the index each_time_stamp is bound to when the loop over forecast.weathers
\* ends, 0 when it was never bound
RECURSIVE walk(_, _, _, _)
walk(length, i, jump_entries, bound) ==
    IF i > length THEN bound
    ELSE IF jump_entries = 0 THEN i
    ELSE walk(length, i + 1, jump_entries - 1, i)

(***************************************************************************)
(* The provider                                                            *)
(***************************************************************************)
City == "Bangalore"

Weather(detailed_status, feels_like) ==
    [t |-> "Weather",
     v |-> [status |-> StrV("Rain"), detailed_status |-> StrV(detailed_status),
            sunrise_time |-> StrV("2023-06-05 00:24:31+00:00"),
            sunset_time |-> StrV("2023-06-05 13:13:02+00:00"),
            humidity |-> IntV(45),
            temperature |-> DictV(<< <<"temp", IntV(24)>>, <<"temp_max", IntV(26)>>,
                                     <<"temp_min", IntV(22)>>, <<"feels_like", feels_like>> >>)]]

\* what weather_at_place(city).weather may be
WeatherObjs == {Weather(ds, fl) : ds \in {"light rain", ""}, fl \in {IntV(24), PyNone}}

\* entry i of a forecast series
ForecastEntry(i) ==
    [status |-> StrV("Clouds"), detailed_status |-> StrV("clouds of entry " \o IntToStr(i))]

\* forecast_at_place(city, '3h').forecast.weathers with n entries
Forecast(n) == [i \in 1..n |-> ForecastEntry(i)]

(***************************************************************************)
(* print_weather_details                                                   *)
(***************************************************************************)
\* the keys print_weather_details reads from weather_info_dict, in order
PrintKeys == <<"ref_time", "time_of_day", "detailed_status", "humidity", "humidity_level",
               "temp_max", "temp_min", "temp_feels_like">>

\* the first of `keys` that d lacks, "" when it has them all
RECURSIVE FirstMissing(_, _)
FirstMissing(d, keys) ==
    IF keys = <<>> THEN ""
    ELSE IF Head(keys) \notin DictKeys(d) THEN Head(keys)
    ELSE FirstMissing(d, Tail(keys))

print_stmt_curr(info) ==
    "Good " \o PyStr(DictGet(info, "time_of_day")) \o "!! It is "
    \o PyStr(DictGet(info, "ref_time")) \o " hours in " \o City \o ", and we have "
    \o PyStr(DictGet(info, "detailed_status")) \o " with "
    \o PyStr(DictGet(info, "humidity")) \o "% "
    \o PyStr(DictGet(info, "humidity_level")) \o " humidity. "
    \o "The temperature ranges between " \o PyStr(DictGet(info, "temp_min")) \o " and "
    \o PyStr(DictGet(info, "temp_max")) \o " degrees Celsius but it may feel like "
    \o PyStr(DictGet(info, "temp_feels_like")) \o " degrees Celsius."

print_stmt_future(future) ==
    "At around " \o PyStr(DictGet(future, "reftime")) \o " hours, we might have "
    \o PyStr(DictGet(future, "detailed_status")) \o "."

UmbrellaSentence == "Carry an umbrella as there might be some rain tomorrow."
ClearSkiesSentence == "We are expecting clear skies tomorrow.Don't miss your shades!!"
FogSentence == "Also, it might be foggy the next few days."

print_stmt_rain_by_snow(rsf) ==
    IF DictGet(rsf, "snow").v THEN UmbrellaSentence ELSE ClearSkiesSentence

print_stmt_rain(rsf) ==
    IF DictGet(rsf, "rain").v THEN UmbrellaSentence ELSE ClearSkiesSentence

print_stmt_fog(rsf) == IF DictGet(rsf, "fog").v THEN FogSentence ELSE ""

print_stmt(info, future, rsf) ==
    print_stmt_curr(info) \o "\n" \o print_stmt_future(future) \o "\n"
    \o print_stmt_rain(rsf) \o "\n" \o print_stmt_fog(rsf)

(***************************************************************************)
(* main()                                                                  *)
(***************************************************************************)
Init ==
    /\ pc = "get_weather" /\ status = "running" /\ exception = "" /\ stdout = <<>>
    /\ failed = ""
    /\ api_key_ok \in BOOLEAN
    /\ weather = Unset /\ hr = -1 /\ mins = -1
    /\ weather_info_dict = Unset /\ forecast = <<>> /\ curr_hour = -1 /\ curr_min = -1
    /\ curr_time = Unset /\ jump_ret = Unset /\ each_time_stamp = 0
    /\ forecast_info_dict = Unset /\ rain_snow_fog_dict = Unset
    /\ fn = "" /\ arg = Unset /\ ret = Unset /\ ret2 = Unset

\* print(message); exit()
PrintAndExit(message, failure) ==
    /\ stdout' = Append(stdout, message)
    /\ status' = "exit"
    /\ failed' = failure
    /\ pc' = "end"
    /\ UNCHANGED exception

\* an exception nothing catches: the traceback goes to stderr, the process ends
Uncaught(name, failure) ==
    /\ status' = "raised"
    /\ exception' = name
    /\ failed' = failure
    /\ pc' = "end"
    /\ UNCHANGED stdout

Continue(next) ==
    /\ pc' = next
    /\ UNCHANGED <<status, exception, stdout, failed>>

\* weather = get_weather(args)
GetWeather ==
    /\ pc = "get_weather"
    /\ \E result \in WeatherObjs \cup {PyNone, Raise("NotFoundError")} :
         IF ~api_key_ok
         THEN PrintAndExit("Invalid API key", "InvalidCredential") /\ UNCHANGED weather
         ELSE IF result.t = "raise"
         THEN /\ PrintAndExit("Please enter a valid city name", "UnresolvableCity at weather")
              /\ UNCHANGED weather
         ELSE weather' = result /\ Continue("check_weather")
    /\ UNCHANGED <<api_key_ok, hr, mins, weather_info_dict, forecast, curr_hour, curr_min,
                   curr_time, jump_ret, each_time_stamp, forecast_info_dict,
                   rain_snow_fog_dict, call_vars>>

\* if weather is None: print(...); exit(0)
CheckWeather ==
    /\ pc = "check_weather"
    /\ IF weather.t = "NoneType"
       THEN PrintAndExit("No weather details found for the city. Please check the city name and try again.",
                         "EmptyWeatherResult")
       ELSE Continue("get_weather_details")
    /\ UNCHANGED <<api_key_ok, weather, hr, mins, weather_info_dict, forecast, curr_hour,
                   curr_min, curr_time, jump_ret, each_time_stamp, forecast_info_dict,
                   rain_snow_fog_dict, call_vars>>

\* f"{hr}:{mins}" with mins zero-padded below 10
RefTime(hour, minute) ==
    IntToStr(hour) \o ":" \o (IF minute < 10 THEN "0" \o IntToStr(minute) ELSE IntToStr(minute))

get_weather_details(w, hour, minute) ==
    LET time_of_day == determine_time_of_day(hour)
        read == DictV(<< <<"status", w.v.status>>, <<"detailed_status", w.v.detailed_status>>,
                         <<"sunrise_time", w.v.sunrise_time>>,
                         <<"ref_time", StrV(RefTime(hour, minute))>>,
                         <<"sunset_time", w.v.sunset_time>>, <<"humidity", w.v.humidity>>,
                         <<"temperature", w.v.temperature>>, <<"time_of_day", time_of_day>> >>)
        d1 == DictSet(read, "humidity_level", determine_humidity(DictGet(read, "humidity").v))
        d2 == DictSet(d1, "temp_max", DictGet(DictGet(d1, "temperature"), "temp_max"))
        d3 == DictSet(d2, "temp_min", DictGet(DictGet(d2, "temperature"), "temp_min"))
    IN  DictSet(d3, "temp_feels_like", DictGet(DictGet(d3, "temperature"), "feels_like"))

\* weather_info_dict = get_weather_details(weather)
GetWeatherDetails ==
    /\ pc = "get_weather_details"
    /\ \E hour \in 0..(HoursPerDay - 1), minute \in 0..(MinutesPerHour - 1),
          extracted \in BOOLEAN :
         /\ hr' = hour
         /\ mins' = minute
         /\ IF ~extracted
            THEN /\ PrintAndExit("Error occurred while fetching weather details",
                                 "FieldExtractionFailure")
                 /\ weather_info_dict' = DictV(<<>>)
            ELSE /\ weather_info_dict' = get_weather_details(weather, hour, minute)
                 /\ Continue("format_weather_details")
    /\ UNCHANGED <<api_key_ok, weather, forecast, curr_hour, curr_min, curr_time, jump_ret,
                   each_time_stamp, forecast_info_dict, rain_snow_fog_dict, call_vars>>

\* weather_info_dict = format_weather_details(weather_info_dict)
FormatWeatherDetails ==
    /\ pc = "format_weather_details"
    /\ weather_info_dict' = format_weather_details(weather_info_dict)
    /\ Continue("get_forecast")
    /\ UNCHANGED <<api_key_ok, weather, hr, mins, forecast, curr_hour, curr_min, curr_time,
                   jump_ret, each_time_stamp, forecast_info_dict, rain_snow_fog_dict,
                   call_vars>>

\* forecast = get_weather(args, "3h")
GetForecast ==
    /\ pc = "get_forecast"
    /\ \E n \in 0..MaxLen, resolved \in BOOLEAN :
         IF ~api_key_ok
         THEN PrintAndExit("Invalid API key", "InvalidCredential") /\ UNCHANGED forecast
         ELSE IF ~resolved
         THEN /\ PrintAndExit("Please enter a valid city name", "UnresolvableCity at forecast")
              /\ UNCHANGED forecast
         ELSE forecast' = Forecast(n) /\ Continue("get_forecast_details")
    /\ UNCHANGED <<api_key_ok, weather, hr, mins, weather_info_dict, curr_hour, curr_min,
                   curr_time, jump_ret, each_time_stamp, forecast_info_dict,
                   rain_snow_fog_dict, call_vars>>

\* forecast_info_dict = get_forecast_details(forecast)
GetForecastDetails ==
    /\ pc = "get_forecast_details"
    /\ \E elapsed \in 0..MaxElapsed :
         LET clock == ClockAfter(hr, mins, elapsed)
             jump == jump_to_entry(clock[1], clock[2])
             bound == IF jump.t = "raise" THEN 0
                      ELSE walk(Len(forecast), 1, jump.v[2], 0)
         IN  /\ curr_hour' = clock[1]
             /\ curr_min' = clock[2]
             /\ curr_time' = get_current_time(clock[1], clock[2])
             /\ jump_ret' = jump
             /\ each_time_stamp' = bound
             /\ IF jump.t = "raise"
                THEN /\ Uncaught(jump.v, "ValueError at get_forecast_details")
                     /\ UNCHANGED forecast_info_dict
                ELSE IF bound = 0
                THEN /\ Uncaught("UnboundLocalError", "UnboundLocalError at get_forecast_details")
                     /\ UNCHANGED forecast_info_dict
                ELSE /\ forecast_info_dict' =
                            DictV(<< <<"status", forecast[bound].status>>,
                                     <<"detailed_status", forecast[bound].detailed_status>>,
                                     <<"reftime", IntV(jump.v[1])>> >>)
                     /\ Continue("get_rain_snow_fog_forecast")
    /\ UNCHANGED <<api_key_ok, weather, hr, mins, weather_info_dict, forecast,
                   rain_snow_fog_dict, call_vars>>

\* rain_snow_fog_dict = get_rain_snow_fog_forecast(args)
GetRainSnowFogForecast ==
    /\ pc = "get_rain_snow_fog_forecast"
    /\ \E resolved \in BOOLEAN, rain \in BOOLEAN, snow \in BOOLEAN, fog \in BOOLEAN :
         IF ~api_key_ok
         THEN /\ PrintAndExit("Invalid API key", "InvalidCredential")
              /\ UNCHANGED rain_snow_fog_dict
         ELSE IF ~resolved
         THEN /\ Uncaught("NotFoundError", "UnresolvableCity at outlook")
              /\ UNCHANGED rain_snow_fog_dict
         ELSE /\ rain_snow_fog_dict' = DictV(<< <<"rain", BoolV(rain)>>, <<"snow", BoolV(snow)>>,
                                                <<"fog", BoolV(fog)>> >>)
              /\ Continue("print_weather_details")
    /\ UNCHANGED <<api_key_ok, weather, hr, mins, weather_info_dict, forecast, curr_hour,
                   curr_min, curr_time, jump_ret, each_time_stamp, forecast_info_dict,
                   call_vars>>

\* print_weather_details(args, weather_info_dict, forecast_info_dict, rain_snow_fog_dict)
PrintWeatherDetails ==
    /\ pc = "print_weather_details"
    /\ LET missing == FirstMissing(weather_info_dict, PrintKeys)
       IN  IF missing # ""
           THEN Uncaught("KeyError: '" \o missing \o "'", "KeyError at print_weather_details")
           ELSE /\ stdout' = Append(stdout, print_stmt(weather_info_dict, forecast_info_dict,
                                                      rain_snow_fog_dict))
                /\ status' = "returned"
                /\ pc' = "end"
                /\ UNCHANGED <<exception, failed>>
    /\ UNCHANGED <<api_key_ok, weather, hr, mins, weather_info_dict, forecast, curr_hour,
                   curr_min, curr_time, jump_ret, each_time_stamp, forecast_info_dict,
                   rain_snow_fog_dict, call_vars>>

Next ==
    \/ GetWeather
    \/ CheckWeather
    \/ GetWeatherDetails
    \/ FormatWeatherDetails
    \/ GetForecast
    \/ GetForecastDetails
    \/ GetRainSnowFogForecast
    \/ PrintWeatherDetails

Spec == Init /\ [][Next]_vars

(***************************************************************************)
(* Properties                                                              *)
(***************************************************************************)
\* get_forecast_details has read the clock and called jump_to_entry
JumpCalled == curr_hour # -1

\* the hour get_current_time rounds the clock read to
RoundedHour == IF curr_min < 30 THEN curr_hour ELSE curr_hour + 1

\* C1: for every wall-clock time jump_to_entry returns (hour3, steps) with
\* hour3 = rounded hour + 3 and steps = floor((hour3 - 9) / 3), rounding
\* toward minus infinity: 10:00 gives (13, 1) and 02:00 gives (5, -2).
C1_OffsetIsFloor ==
    JumpCalled =>
        /\ jump_ret.t = "tuple"
        /\ jump_ret.v = <<RoundedHour + 3, (RoundedHour + 3 - 9) \div 3>>
        /\ (curr_hour = 10 /\ curr_min < 30 => jump_ret.v = <<13, 1>>)
        /\ (curr_hour = 2 /\ curr_min < 30 => jump_ret.v = <<5, -2>>)

\* the values the claim about format_weather_details ranges over
InClaimedValues(value) ==
    \/ value.t \in {"NoneType", "int", "str"}
    \/ (value.t \in {"dict", "list"} /\ value.v = <<>>)

\* not None, not "None", not an empty string, mapping or sequence
IsKept(value) ==
    /\ value.t # "NoneType"
    /\ ~(value.t = "str" /\ value.v \in {"None", ""})
    /\ ~(value.t \in {"dict", "list"} /\ value.v = <<>>)

\* C2: on a mapping whose values are None, "None", "", {}, [], integers and
\* non-empty strings, format_weather_details returns exactly the keys whose
\* value is none of the first five, each mapped to the string form of its
\* value; the worked example yields {f: "5", g: "x"}.
C2_FormatKeepsAndStringifies ==
    (/\ fn = "format_weather_details"
     /\ arg.t = "dict"
     /\ \A i \in 1..Len(arg.v) : InClaimedValues(arg.v[i][2])) =>
        /\ ret.t = "dict"
        /\ DictKeys(ret) = {arg.v[i][1] : i \in {j \in 1..Len(arg.v) : IsKept(arg.v[j][2])}}
        /\ Len(ret.v) = Cardinality(DictKeys(ret))
        /\ \A i \in 1..Len(arg.v) :
              IsKept(arg.v[i][2]) =>
                 /\ DictGet(ret, arg.v[i][1]).t = "str"
                 /\ arg.v[i][2].t = "str" => DictGet(ret, arg.v[i][1]).v = arg.v[i][2].v
                 /\ arg.v[i][2].t = "int" =>
                       DictGet(ret, arg.v[i][1]).v = IntToStr(arg.v[i][2].v)
        /\ (arg = ExampleDict => ret = DictV(<< <<"f", StrV("5")>>, <<"g", StrV("x")>> >>))

C2_Witness ==
    /\ fn = "format_weather_details"
    /\ arg = ExampleDict
    /\ ret = DictV(<< <<"f", StrV("5")>>, <<"g", StrV("x")>> >>)

\* C3: format_weather_details is idempotent: applied to its own result it
\* removes no key and changes no value.
C3_FormatIdempotent ==
    fn = "format_weather_details twice" => ret2 = ret

C3_Witness ==
    /\ fn = "format_weather_details twice"
    /\ arg.t = "dict" /\ Len(arg.v) = 2
    /\ arg.v[1][2] = PyNone /\ arg.v[2][2] = ListV(<<StrV("x"), PyNone>>)
    /\ ret = DictV(<< <<"b", StrV("['x', None]")>> >>)
    /\ ret2 = ret

\* the failures the error policy names, with the message each prints
PolicyMessage ==
    [f \in {"InvalidCredential", "UnresolvableCity at weather", "UnresolvableCity at forecast",
            "UnresolvableCity at outlook", "EmptyWeatherResult", "FieldExtractionFailure"} |->
        CASE f = "InvalidCredential" -> "Invalid API key"
          [] f = "EmptyWeatherResult" ->
                "No weather details found for the city. Please check the city name and try again."
          [] f = "FieldExtractionFailure" -> "Error occurred while fetching weather details"
          [] OTHER -> "Please enter a valid city name"]

\* C4: every failure of the pipeline (invalid credential, unresolvable city
\* at any of the three fetches, empty weather result, field extraction) is
\* caught where it occurs, its static message is printed and the process
\* exits at once, the summary never being printed.
C4_EveryFailureCaught ==
    failed \in DOMAIN PolicyMessage =>
        /\ status = "exit"
        /\ exception = ""
        /\ pc = "end"
        /\ stdout = <<PolicyMessage[failed]>>

\* get_forecast_details has walked forecast.weathers with the steps of jump_to_entry
Walked == JumpCalled /\ jump_ret.t = "tuple"

\* the selection rule for a walk that bound the loop variable
SelectsByRule ==
    /\ each_time_stamp \in 1..Len(forecast)
    /\ (jump_ret.v[2] \in 0..(Len(forecast) - 1) => each_time_stamp - 1 = jump_ret.v[2])
    /\ (jump_ret.v[2] \notin 0..(Len(forecast) - 1) => each_time_stamp = Len(forecast))

C6_TimeOfDayBuckets ==
    (fn = "determine_time_of_day" /\ arg.v \in 0..23) =>
        /\ (arg.v \in 0..5 => ret = PyNone)
        /\ (arg.v \in 6..11 => ret = StrV("Morning"))
        /\ (arg.v \in 12..17 => ret = StrV("Afternoon"))
        /\ (arg.v \in 18..23 => ret = StrV("Evening"))

C6_Witness ==
    /\ fn = "determine_time_of_day"
    /\ arg.v = 18
    /\ ret = StrV("Evening")

\* C7: determine_humidity is total over the integers: "low" below 30,
\* "medium" from 30 to 59, "high" from 60 on.
C7_HumidityBands ==
    fn = "determine_humidity" =>
        /\ ret.t = "str"
        /\ (arg.v < 30 <=> ret.v = "low")
        /\ (30 <= arg.v /\ arg.v < 60 <=> ret.v = "medium")
        /\ (arg.v >= 60 <=> ret.v = "high")

C7_Witness ==
    /\ fn = "determine_humidity"
    /\ arg.v = 60
    /\ ret = StrV("high")

\* C8: print_weather_details prints one string of four parts joined by
\* newlines, greeting, forecast, rain, fog: the rain part is the umbrella
\* warning iff rain is true, else the clear-skies remark; the fog part is the
\* fog sentence iff fog is true, else empty; snow has no effect.
C8_FourPartSummary ==
    status = "returned" =>
        /\ Len(stdout) = 1
        /\ stdout[1] =
              print_stmt_curr(weather_info_dict) \o "\n"
              \o print_stmt_future(forecast_info_dict) \o "\n"
              \o (IF DictGet(rain_snow_fog_dict, "rain") = BoolV(TRUE)
                  THEN "Carry an umbrella as there might be some rain tomorrow."
                  ELSE "We are expecting clear skies tomorrow.Don't miss your shades!!")
              \o "\n"
              \o (IF DictGet(rain_snow_fog_dict, "fog") = BoolV(TRUE)
                  THEN "Also, it might be foggy the next few days."
                  ELSE "")

C8_Witness ==
    /\ status = "returned"
    /\ hr = 14 /\ mins = 5
    /\ DictGet(rain_snow_fog_dict, "rain") = BoolV(TRUE)
    /\ DictGet(rain_snow_fog_dict, "snow") = BoolV(FALSE)
    /\ DictGet(rain_snow_fog_dict, "fog") = BoolV(FALSE)
    /\ jump_ret.v = <<17, 2>>
    /\ stdout = << "Good Afternoon!! It is 14:05 hours in Bangalore, and we have light rain with 45% medium humidity. "
                   \o "The temperature ranges between 22 and 26 degrees Celsius but it may feel like 24 degrees Celsius."
                   \o "\nAt around 17 hours, we might have clouds of entry 3."
                   \o "\nCarry an umbrella as there might be some rain tomorrow.\n" >>

\* C9: for every wall-clock hour and minute get_current_time returns a value
\* with minute and second zero whose hour is the current hour when minute < 30
\* and the current hour plus one otherwise, also at 23:30 and later.
C9_RoundedTimeTotal ==
    JumpCalled =>
        /\ curr_time.t = "datetime"
        /\ curr_time.v = [hour |-> RoundedHour, minute |-> 0, second |-> 0]

\* weather_info_dict holds the formatted record
Formatted == pc \in {"get_forecast", "get_forecast_details", "get_rain_snow_fog_forecast",
                     "print_weather_details"}

\* the provider's fields are all non-empty
ProviderFieldsPresent ==
    /\ weather.t = "Weather"
    /\ IsKept(weather.v.detailed_status)
    /\ IsKept(weather.v.humidity)
    /\ \A key \in {"temp_max", "temp_min", "feels_like"} :
          IsKept(DictGet(weather.v.temperature, key))

\* C10: when the hour read is in [0,6), get_weather_details stores
\* time_of_day = None, formatting removes the key, and print_weather_details
\* fails on the missing key with nothing printed; when it is in [6,24) and the
\* provider's fields are non-empty, every key print_weather_details reads is
\* present after formatting.
C10_NightRunPrintsNothing ==
    /\ (pc = "format_weather_details" /\ hr \in 0..5 =>
           DictGet(weather_info_dict, "time_of_day") = PyNone)
    /\ (Formatted /\ hr \in 0..5 => "time_of_day" \notin DictKeys(weather_info_dict))
    /\ (hr \in 0..5 => status # "returned")
    /\ (hr \in 0..5 /\ pc = "end" /\ rain_snow_fog_dict.t = "dict" =>
           /\ status = "raised"
           /\ exception \in {"KeyError: 'time_of_day'"}
           /\ stdout = <<>>)
    /\ (Formatted /\ hr \in 6..23 /\ ProviderFieldsPresent =>
           \A i \in 1..Len(PrintKeys) : PrintKeys[i] \in DictKeys(weather_info_dict))

C10_Witness ==
    /\ hr = 3
    /\ pc = "end"
    /\ rain_snow_fog_dict.t = "dict"
    /\ "time_of_day" \notin DictKeys(weather_info_dict)
    /\ status = "raised"
    /\ exception = "KeyError: 'time_of_day'"
    /\ stdout = <<>>

====
